---- MODULE Spec2Model ----
(***************************************************************************)
(* Model of chardev.c, a Linux loadable kernel module that registers one   *)
(* character device and exchanges a short text message through it.         *)
(*                                                                         *)
(* Bytes are the integers 0..255 (0 is the C string terminator), strings   *)
(* are sequences of bytes.  The module's globals (major_num, message,      *)
(* size_of_message, open_num, chardev_class, chardev_device) are           *)
(* variables; the kernel's registration state (held, acq, rel, klog) and   *)
(* the record of completed handler calls (hist) are kept beside them.      *)
(***************************************************************************)
EXTENDS Integers, Sequences, FiniteSets, TLC

VARIABLES
  pc,               \* position of the load/unload path (chardev_init, chardev_exit):
                    \* "init", "class_create", "device_create", "rollback", "failed",
                    \* "loaded", "exit", "gone", or "oops" (stopped by the kernel)
  todo,             \* kernel calls left on the cleanup path being executed
  ret,              \* value returned by chardev_init ("none" until it returns)
  major_num,        \* static int major_num
  chardev_class,    \* static struct class *: 0 (NULL), ValidPtr or a negative errno (ERR_PTR)
  chardev_device,   \* static struct device *: 0 (NULL), ValidPtr or a negative errno
  held,             \* kernel resources that exist now: subset of Resources
  acq,              \* per resource, how many times it was acquired
  rel,              \* per resource, how many times a release was applied to it
  klog,             \* kernel registration calls made so far, in order
  message,          \* static char message[256]
  size_of_message,  \* static short size_of_message
  open_num,         \* static int open_num
  spill,            \* bytes sprintf stored past the end of message[] (adjacent memory)
  nopen,            \* files currently open on the device
  hist,             \* the last three handler calls that completed, oldest first
  calls,            \* number of read/write calls made
  early,            \* TRUE once a handler ran while chardev_init had not returned 0
  cs,               \* per caller, the handler call it is inside of and its locals
  attempts          \* the failed loads before this one: failing step and value returned

vars == <<pc, todo, ret, major_num, chardev_class, chardev_device, held, acq, rel,
          klog, message, size_of_message, open_num, spill, nopen, hist, calls, early,
          cs, attempts>>

lifeVars == <<pc, todo, ret, major_num, chardev_class, chardev_device, held, acq, rel, klog>>
slotVars == <<message, size_of_message, open_num, spill>>
callVars == <<nopen, hist, calls, early>>

----------------------------------------------------------------------------
(* Bounds of the model *)

MaxCalls == 3       \* read/write calls per behaviour
MaxOpens == 1       \* open calls per behaviour
NCallers == 3       \* callers that may be inside a handler at the same time
MaxLoads == 3       \* load attempts per behaviour

(* Program constants *)

Capacity == 256     \* char message[256]
EFAULT == 14        \* return -EFAULT
ShortBits == 16     \* short size_of_message

Resources == {"major", "class", "node"}

Callers == 1..NCallers

----------------------------------------------------------------------------
(* C library and kernel helpers used by the handlers *)

\* The decimal digits of n as ASCII bytes: what %zu prints.
RECURSIVE Decimal(_)
Decimal(n) ==
  IF n < 10 THEN <<48 + n>> ELSE Decimal(n \div 10) \o <<48 + (n % 10)>>

\* strlen: the number of bytes before the first zero byte (every string
\* handled here ends within the bytes given; Len(s) stands for "none found").
Strlen(s) ==
  LET zeros == {i \in 1..Len(s) : s[i] = 0}
  IN  IF zeros = {} THEN Len(s)
      ELSE (CHOOSE i \in zeros : \A j \in zeros : i <= j) - 1

\* What %s prints for a char pointer: the bytes up to the first zero byte.
CStr(s) == SubSeq(s, 1, Strlen(s))

\* A value converted to short (16 bits, two's complement).
ToShort(n) == ((n + 2 ^ (ShortBits - 1)) % (2 ^ ShortBits)) - 2 ^ (ShortBits - 1)

\* A format string without the space before the parenthesis.
AnnotationNoSpace(len) ==
  <<40>> \o Decimal(len) \o <<32, 108, 101, 116, 116, 101, 114, 115, 41>>

\* The text " (<len> letters)" that the format string appends after %s.
Annotation(len) ==
  <<32, 40>> \o Decimal(len) \o <<32, 108, 101, 116, 116, 101, 114, 115, 41>>

\* The characters sprintf produces for "%s (%zu letters)" with buffer and len.
Format(buffer, len) == CStr(buffer) \o Annotation(len)

\* n bytes 'a' followed by the terminating zero byte.
Fill(n) == [i \in 1..(n + 1) |-> IF i <= n THEN 97 ELSE 0]

Hello == <<104, 101, 108, 108, 111, 0>>

----------------------------------------------------------------------------
(* Inputs of the handlers *)

\* A write call passes a user buffer (the memory at the pointer, up to a zero
\* byte) and len.  Fill(241) is the longest all-'a' text that fits message[]
\* with its terminator, Fill(245) runs over it.  The second input has a zero
\* byte before position len, the third has no zero byte at position len.
WriteInputs ==
  << [buf |-> Hello, len |-> 5],
     [buf |-> <<97, 0, 98, 0>>, len |-> 3],
     [buf |-> <<97, 98, 99, 0>>, len |-> 2],
     [buf |-> Fill(241), len |-> 241],
     [buf |-> Fill(245), len |-> 245] >>

\* The write calls made: indices into WriteInputs.
Writes == DOMAIN WriteInputs

\* Lengths a read call asks for: less than some stored texts, more than others.
ReadLens == {20}

\* The write calls made beside the load/unload path.
LifeWrites == {1}

\* The writes two callers issue at the same time: write("a", 1), write("bb", 2).
RaceInputs ==
  << [buf |-> <<97, 0>>, len |-> 1],
     [buf |-> <<98, 98, 0>>, len |-> 2] >>

\* The two callers of the races looked at.
RaceCallers == {1, 2}

----------------------------------------------------------------------------
(* The handlers, dev_open .. dev_release *)

\* The kernel calls a handler of fops only while the character device region
\* registered by register_chrdev(0, DEVICE_NAME, &fops) exists.
FopsRegistered == "major" \in held

\* chardev_init has returned 0 (and chardev_exit may have begun).
InitComplete == pc \in {"loaded", "exit", "gone"}

Remember(rec) ==
  /\ hist' = (IF Len(hist) < 3 THEN hist ELSE Tail(hist)) \o <<rec>>
  /\ early' = (early \/ ~InitComplete)

Call(op, in, len, err, r, out, before) ==
  [op |-> op, in |-> in, len |-> len, err |-> err, ret |-> r, out |-> out,
   before |-> before]

\* A caller outside every handler.
Idle ==
  [op |-> "none", pc |-> "idle", k |-> 0, reg |-> 0, off |-> 0, out |-> <<>>,
   ret |-> 0, alone |-> TRUE]

\* An increment whose sum is never stored.
IncrSkip(n) == n

\* open_num++ on a 32-bit int.
Incr(n) == IF n = 2147483647 THEN -2147483647 - 1 ELSE n + 1

dev_open ==
  /\ FopsRegistered
  /\ open_num < MaxOpens
  /\ nopen < MaxOpens
  /\ open_num' = Incr(open_num)
  /\ nopen' = nopen + 1
  /\ Remember(Call("open", 0, 0, 0, 0, <<>>, size_of_message))
  /\ UNCHANGED <<lifeVars, message, size_of_message, spill, calls, cs, attempts>>

\* A dev_release that also marks the message as read.
dev_release_Clearing ==
  /\ FopsRegistered
  /\ nopen > 0
  /\ nopen' = nopen - 1
  /\ size_of_message' = 0
  /\ Remember(Call("release", 0, 0, 0, 0, <<>>, size_of_message))
  /\ UNCHANGED <<lifeVars, message, open_num, spill, calls, cs, attempts>>

dev_release ==
  /\ FopsRegistered
  /\ nopen > 0
  /\ nopen' = nopen - 1
  /\ Remember(Call("release", 0, 0, 0, 0, <<>>, size_of_message))
  /\ UNCHANGED <<lifeVars, slotVars, calls, cs, attempts>>

\* The n bytes copy_to_user reads starting at message: the bytes past the
\* end of the array are whatever the adjacent memory holds, either what
\* sprintf spilled there or, with size_of_message laid out right after
\* message[], the two bytes of size_of_message followed by the spill.
Sources(n) ==
  IF n <= Capacity THEN {SubSeq(message, 1, n)}
  ELSE {message \o SubSeq(spill, 1, n - Capacity),
        message \o [i \in 1..(n - Capacity) |->
                      IF i = 1 THEN n % 256
                      ELSE IF i = 2 THEN n \div 256 ELSE spill[i]]}

\* copy_to_user(buffer, message, size_of_message) returns the number of
\* bytes it could not copy: 0 for a writable destination or an empty copy,
\* some or all of them for a bad destination, all of them for a size that is
\* negative as a short (huge as an unsigned long).
ErrorCounts(n, bad) ==
  IF n < 0 THEN {1}
  ELSE IF n = 0 \/ ~bad THEN {0}
  ELSE {1, n}

\* The bytes that reached the caller.
Copied(src, n, err) == IF n < 0 THEN <<>> ELSE SubSeq(src, 1, n - err)

\* A dev_read that clears the length whether or not the copy succeeded.
SizeAfterReadReset(n, err) == 0

\* size_of_message after dev_read: cleared when the copy succeeded.
SizeAfterRead(n, err) == IF err = 0 THEN 0 ELSE n

\* A dev_read that returns the length it held before clearing it.
ReadReturnCount(n, err) == IF err = 0 THEN n ELSE -EFAULT

\* The value dev_read returns: the value of (size_of_message = 0), or -EFAULT.
ReadReturn(n, err) == IF err = 0 THEN 0 ELSE -EFAULT

dev_read(len, bad) ==
  /\ FopsRegistered
  /\ nopen > 0
  /\ calls < MaxCalls
  /\ \E err \in ErrorCounts(size_of_message, bad) :
       \E src \in Sources(IF size_of_message < 0 THEN 0 ELSE size_of_message) :
         /\ size_of_message' = SizeAfterRead(size_of_message, err)
         /\ Remember(Call("read", 0, len, err,
                          ReadReturn(size_of_message, err),
                          Copied(src, size_of_message, err), size_of_message))
  /\ calls' = calls + 1
  /\ UNCHANGED <<lifeVars, message, open_num, spill, nopen, cs, attempts>>

\* The bytes sprintf stores from message[0] on: the text and its terminator.
Stored(in) == Format(in.buf, in.len) \o <<0>>

\* The first Capacity bytes land in message[]; sprintf has no bound.
MessageAfter(in) ==
  LET st == Stored(in)
  IN  [i \in 1..Capacity |-> IF i <= Len(st) THEN st[i] ELSE message[i]]

\* The bytes that land past the end of message[].
SpillAfter(in) ==
  IF Len(Stored(in)) > Capacity
    THEN SubSeq(Stored(in), Capacity + 1, Len(Stored(in)))
    ELSE spill

\* A dev_write that returns the length of the text it stored.
WriteReturnStored(in) == Strlen(Stored(in))

\* The value dev_write returns: len.
WriteReturn(in) == in.len

\* open_num lies after message[] in the module's data: an overflowing
\* sprintf may leave it alone or overwrite it with any value.
OpenNumAfter(in) ==
  IF Len(Stored(in)) > Capacity THEN {open_num} \cup (0..MaxOpens) ELSE {open_num}

dev_write(k) ==
  /\ FopsRegistered
  /\ nopen > 0
  /\ calls < MaxCalls
  /\ LET in == WriteInputs[k]
     IN  /\ message' = MessageAfter(in)
         /\ spill' = SpillAfter(in)
         /\ size_of_message' = ToShort(Strlen(MessageAfter(in) \o SpillAfter(in)))
         /\ open_num' \in OpenNumAfter(in)
         /\ Remember(Call("write", k, in.len, 0, WriteReturn(in), <<>>, size_of_message))
  /\ calls' = calls + 1
  /\ UNCHANGED <<lifeVars, nopen, cs, attempts>>

----------------------------------------------------------------------------
(* The handlers step by step, for callers that run them at the same time.
   The handlers take no lock: between two steps of one caller any step of
   another caller may happen.  Each caller makes one call. *)

Enter(c, op, k, pcn, reg, out) ==
  cs' = [cs EXCEPT ![c] =
           [op |-> op, pc |-> pcn, k |-> k, reg |-> reg, off |-> 0, out |-> out,
            ret |-> 0,
            alone |-> \A d \in Callers \ {c} : cs[d].pc \in {"idle", "done"}]]

Return(c, r) == cs' = [cs EXCEPT ![c].pc = "done", ![c].ret = r]

\* An increment that reads the counter again when it stores.
LoadedFresh(c) == open_num

\* The value open_num++ adds one to: the one this caller read.
Loaded(c) == cs[c].reg

\* open_num++, first half: read open_num.
open_load(c) ==
  /\ FopsRegistered
  /\ cs[c].pc = "idle"
  /\ Enter(c, "open", 0, "incr", open_num, <<>>)
  /\ UNCHANGED <<lifeVars, slotVars, callVars, attempts>>

\* open_num++, second half: store the sum; then return 0.
open_store(c) ==
  /\ cs[c].pc = "incr"
  /\ open_num' = Incr(Loaded(c))
  /\ Return(c, 0)
  /\ UNCHANGED <<lifeVars, message, size_of_message, spill, callVars, attempts>>

\* The pieces sprintf stores one after the other for "%s (%zu letters)": the
\* string, the text up to the number, the number, the rest, the terminator.
Chunks(in) ==
  << CStr(in.buf), <<32, 40>>, Decimal(in.len),
     <<32, 108, 101, 116, 116, 101, 114, 115, 41>>, <<0>> >>

write_enter(c, k) ==
  /\ FopsRegistered
  /\ cs[c].pc = "idle"
  /\ Enter(c, "write", k, "sprintf", 1, <<>>)
  /\ UNCHANGED <<lifeVars, slotVars, callVars, attempts>>

\* sprintf stores its next piece where this caller's output has got to.
write_chunk(c) ==
  /\ cs[c].pc = "sprintf"
  /\ LET chunk == Chunks(RaceInputs[cs[c].k])[cs[c].reg]
         off == cs[c].off
         last == cs[c].reg = Len(Chunks(RaceInputs[cs[c].k]))
     IN  /\ message' = [i \in 1..Capacity |->
                          IF off < i /\ i <= off + Len(chunk)
                            THEN chunk[i - off] ELSE message[i]]
         /\ cs' = [cs EXCEPT ![c].off = off + Len(chunk),
                             ![c].reg = IF last THEN 0 ELSE @ + 1,
                             ![c].pc = IF last THEN "strlen" ELSE "sprintf"]
  /\ UNCHANGED <<lifeVars, size_of_message, open_num, spill, callVars, attempts>>

\* strlen(message)
write_strlen(c) ==
  /\ cs[c].pc = "strlen"
  /\ cs' = [cs EXCEPT ![c].reg = Strlen(message), ![c].pc = "store"]
  /\ UNCHANGED <<lifeVars, slotVars, callVars, attempts>>

\* size_of_message = ...; return len
write_store(c) ==
  /\ cs[c].pc = "store"
  /\ size_of_message' = ToShort(cs[c].reg)
  /\ Return(c, WriteReturn(RaceInputs[cs[c].k]))
  /\ UNCHANGED <<lifeVars, message, open_num, spill, callVars, attempts>>

\* copy_to_user(buffer, message, size_of_message) to a writable destination.
read_copy(c) ==
  /\ FopsRegistered
  /\ cs[c].pc = "idle"
  /\ size_of_message >= 0
  /\ \E src \in Sources(size_of_message) :
       Enter(c, "read", 0, "clear", size_of_message, Copied(src, size_of_message, 0))
  /\ UNCHANGED <<lifeVars, slotVars, callVars, attempts>>

\* return (size_of_message = 0)
read_clear(c) ==
  /\ cs[c].pc = "clear"
  /\ size_of_message' = SizeAfterRead(cs[c].reg, 0)
  /\ Return(c, ReadReturn(cs[c].reg, 0))
  /\ UNCHANGED <<lifeVars, message, open_num, spill, callVars, attempts>>

----------------------------------------------------------------------------
(* Loading and unloading: chardev_init and chardev_exit *)

\* What the kernel's registration calls may answer.
DynamicMajors == {240}
RegisterErrors == {-16, -12}     \* register_chrdev: -EBUSY, -ENOMEM
ClassErrors == {-12, -17}        \* class_create: ERR_PTR(-ENOMEM), ERR_PTR(-EEXIST)
DeviceErrors == {-12, -17}       \* device_create: ERR_PTR(-ENOMEM), ERR_PTR(-EEXIST)

\* Pointers: NULL is 0, a valid object is ValidPtr, ERR_PTR(-e) is -e.
ValidPtr == 1

\* IS_ERR(p) for the modelled pointers.
IS_ERR(p) == p < 0

\* A chardev_init that answers every pointer failure with -1.
PTR_ERR_Fixed(p) == -1

\* PTR_ERR(p): the errno an error pointer carries.
PTR_ERR(p) == p

\* The resource a kernel call acquires or releases.
ResourceOf(c) ==
  CASE c \in {"register_chrdev", "unregister_chrdev"} -> "major"
    [] c \in {"class_create", "class_unregister", "class_destroy"} -> "class"
    [] c \in {"device_create", "device_destroy"} -> "node"

IsRelease(c) ==
  c \in {"unregister_chrdev", "class_unregister", "class_destroy", "device_destroy"}

\* A successful acquiring call.
Acquire(c) ==
  /\ held' = held \cup {ResourceOf(c)}
  /\ acq' = [acq EXCEPT ![ResourceOf(c)] = @ + 1]
  /\ klog' = Append(klog, c)
  /\ UNCHANGED rel

\* A releasing call.
Release(c) ==
  /\ held' = held \ {ResourceOf(c)}
  /\ rel' = [rel EXCEPT ![ResourceOf(c)] = @ + 1]
  /\ klog' = Append(klog, c)
  /\ UNCHANGED acq

\* A cleanup after a failed class_create that forgets the major number.
RollbackClassNone == <<>>

\* The cleanup when class_create failed.
RollbackClass == <<"unregister_chrdev">>

\* The cleanup when device_create failed.
RollbackDevice == <<"class_destroy", "unregister_chrdev">>

\* A chardev_exit that removes the class before the device.
ExitCallsClassFirst ==
  <<"class_unregister", "class_destroy", "device_destroy", "unregister_chrdev">>

\* A chardev_exit that gives up the major number first.
ExitCallsMajorFirst ==
  <<"unregister_chrdev", "device_destroy", "class_unregister", "class_destroy">>

\* The calls of chardev_exit, in order.
ExitCalls ==
  <<"device_destroy", "class_unregister", "class_destroy", "unregister_chrdev">>

\* major_num = register_chrdev(0, DEVICE_NAME, &fops)
init_register ==
  /\ pc = "init"
  /\ \/ \E m \in DynamicMajors :
          /\ major_num' = m
          /\ Acquire("register_chrdev")
          /\ pc' = "class_create"
          /\ UNCHANGED ret
     \/ \E e \in RegisterErrors :
          /\ major_num' = e
          /\ ret' = e
          /\ pc' = "failed"
          /\ UNCHANGED <<held, acq, rel, klog>>
  /\ UNCHANGED <<todo, chardev_class, chardev_device, slotVars, callVars, cs, attempts>>

\* chardev_class = class_create(THIS_MODULE, CLASS_NAME)
init_class ==
  /\ pc = "class_create"
  /\ \/ /\ chardev_class' = ValidPtr
        /\ Acquire("class_create")
        /\ pc' = "device_create"
        /\ UNCHANGED <<todo, ret>>
     \/ \E e \in ClassErrors :
          /\ chardev_class' = e
          /\ todo' = RollbackClass
          /\ ret' = PTR_ERR(e)
          /\ pc' = IF RollbackClass = <<>> THEN "failed" ELSE "rollback"
          /\ UNCHANGED <<held, acq, rel, klog>>
  /\ UNCHANGED <<major_num, chardev_device, slotVars, callVars, cs, attempts>>

\* chardev_device = device_create(chardev_class, NULL, MKDEV(major_num, 0), ...)
init_device ==
  /\ pc = "device_create"
  /\ \/ /\ chardev_device' = ValidPtr
        /\ Acquire("device_create")
        /\ ret' = 0
        /\ pc' = "loaded"
        /\ UNCHANGED todo
     \/ \E e \in DeviceErrors :
          /\ chardev_device' = e
          /\ todo' = RollbackDevice
          /\ ret' = PTR_ERR(e)
          /\ pc' = "rollback"
          /\ UNCHANGED <<held, acq, rel, klog>>
  /\ UNCHANGED <<major_num, chardev_class, slotVars, callVars, cs, attempts>>

\* rmmod runs chardev_exit on a module whose chardev_init returned 0.
exit_enter ==
  /\ pc = "loaded"
  /\ pc' = "exit"
  /\ todo' = ExitCalls
  /\ UNCHANGED <<ret, major_num, chardev_class, chardev_device, held, acq, rel, klog,
                 slotVars, callVars, cs, attempts>>

\* The next call of the cleanup being executed; after the last one
\* chardev_init returns its error, or chardev_exit returns.  A releasing call
\* on an object that an earlier call already released (class_destroy after
\* class_unregister, which dropped the last reference to the class) works on
\* freed memory: it may pass unnoticed, or the kernel may stop the path there.
cleanup_step ==
  /\ pc \in {"rollback", "exit"}
  /\ todo # <<>>
  /\ Release(Head(todo))
  /\ todo' = Tail(todo)
  /\ \/ pc' = IF Tail(todo) # <<>> THEN pc
              ELSE IF pc = "rollback" THEN "failed" ELSE "gone"
     \/ /\ ResourceOf(Head(todo)) \notin held
        /\ pc' = "oops"
  /\ UNCHANGED <<ret, major_num, chardev_class, chardev_device,
                 slotVars, callVars, cs, attempts>>

\* The step at which the load that just returned an error failed.
FailedStep ==
  IF major_num < 0 THEN "major"
  ELSE IF IS_ERR(chardev_class) THEN "class" ELSE "node"

Zeros == [i \in 1..Capacity |-> 0]
None == [r \in Resources |-> 0]

\* insmod again after a load that failed: the module's data is laid out
\* afresh from its initializers and chardev_init runs again.
load_again ==
  /\ pc = "failed"
  /\ Len(attempts) + 1 < MaxLoads
  /\ attempts' = Append(attempts, [step |-> FailedStep, ret |-> ret])
  /\ pc' = "init"
  /\ todo' = <<>>
  /\ ret' = "none"
  /\ major_num' = 0
  /\ chardev_class' = 0
  /\ chardev_device' = 0
  /\ held' = {}
  /\ acq' = None
  /\ rel' = None
  /\ klog' = <<>>
  /\ message' = Zeros
  /\ size_of_message' = 0
  /\ open_num' = 0
  /\ spill' = <<>>
  /\ nopen' = 0
  /\ hist' = <<>>
  /\ calls' = 0
  /\ early' = FALSE
  /\ UNCHANGED cs

----------------------------------------------------------------------------
(* Specifications *)

\* insmod: the module's data as its initializers leave it, chardev_init about to run.
Init ==
  /\ pc = "init"
  /\ todo = <<>>
  /\ ret = "none"
  /\ major_num = 0
  /\ chardev_class = 0
  /\ chardev_device = 0
  /\ held = {}
  /\ acq = None
  /\ rel = None
  /\ klog = <<>>
  /\ message = Zeros
  /\ size_of_message = 0
  /\ open_num = 0
  /\ spill = <<>>
  /\ nopen = 0
  /\ hist = <<>>
  /\ calls = 0
  /\ early = FALSE
  /\ cs = [c \in Callers |-> Idle]
  /\ attempts = <<>>

Next ==
  \/ init_register
  \/ init_class
  \/ init_device
  \/ exit_enter
  \/ cleanup_step
  \/ dev_open
  \/ dev_release
  \/ \E len \in ReadLens, bad \in BOOLEAN : dev_read(len, bad)
  \/ \E k \in LifeWrites : dev_write(k)

Spec == Init /\ [][Next]_vars

\* The device right after a load that succeeded, before any caller used it.
InitSlot ==
  /\ pc = "loaded"
  /\ todo = <<>>
  /\ ret = 0
  /\ major_num \in DynamicMajors
  /\ chardev_class = ValidPtr
  /\ chardev_device = ValidPtr
  /\ held = Resources
  /\ acq = [r \in Resources |-> 1]
  /\ rel = None
  /\ klog = <<"register_chrdev", "class_create", "device_create">>
  /\ message = Zeros
  /\ size_of_message = 0
  /\ open_num = 0
  /\ spill = <<>>
  /\ nopen = 0
  /\ hist = <<>>
  /\ calls = 0
  /\ early = FALSE
  /\ cs = [c \in Callers |-> Idle]
  /\ attempts = <<>>

NextSlot ==
  \/ dev_open
  \/ dev_release
  \/ \E len \in ReadLens, bad \in BOOLEAN : dev_read(len, bad)
  \/ \E k \in Writes : dev_write(k)

SpecSlot == InitSlot /\ [][NextSlot]_vars

\* Callers opening the loaded device at the same time.
NextOpen ==
  \E c \in Callers : open_load(c) \/ open_store(c)

SpecOpen == InitSlot /\ [][NextOpen]_vars

\* Two callers writing to and reading from the loaded device at the same time.
NextRace ==
  \E c \in RaceCallers :
    \/ \E k \in DOMAIN RaceInputs : write_enter(c, k)
    \/ write_chunk(c)
    \/ write_strlen(c)
    \/ write_store(c)
    \/ read_copy(c)
    \/ read_clear(c)

SpecRace == InitSlot /\ [][NextRace]_vars

\* Repeated load attempts, no caller.
NextLoad ==
  \/ init_register
  \/ init_class
  \/ init_device
  \/ exit_enter
  \/ cleanup_step
  \/ load_again

SpecLoad == Init /\ [][NextLoad]_vars

----------------------------------------------------------------------------
(* Properties of the message exchange (checked under SpecSlot) *)

Last == hist[Len(hist)]

\* The bytes a write call supplies: the first len bytes at the pointer.
Supplied(k) == SubSeq(WriteInputs[k].buf, 1, WriteInputs[k].len)

\* The content the specification describes: the supplied bytes followed by
\* the annotation of their count.
Composed(k) == Supplied(k) \o Annotation(WriteInputs[k].len)

\* C1: for every b with len(b) + len(decimal(len(b))) + 1 <= 256, a write of
\* b directly followed by a read delivers b followed by its annotation, and a
\* second read directly after that delivers no bytes.
C1_RoundTrip ==
  \A i \in 1..(Len(hist) - 1) :
    (/\ hist[i].op = "write"
     /\ hist[i + 1].op = "read"
     /\ hist[i + 1].err = 0
     /\ hist[i].len + Len(Decimal(hist[i].len)) + 1 <= Capacity)
    => /\ hist[i + 1].out = Composed(hist[i].in)
       /\ (i + 2 <= Len(hist) /\ hist[i + 2].op = "read")
            => hist[i + 2].out = <<>>

\* C2, as claimed: a read whose copy succeeds returns the number of bytes
\* copied, the valid length held before it, and leaves the valid length 0.
C2_ReadReturnsCount ==
  (hist # <<>> /\ Last.op = "read" /\ Last.err = 0)
    => /\ Last.ret = Last.before
       /\ Len(Last.out) = Last.before
       /\ size_of_message = 0

\* C2, amended: a read whose copy succeeds copies as many bytes as the valid
\* length held before it, returns 0 and leaves the valid length 0.
C2_ReadReturnsZero ==
  (hist # <<>> /\ Last.op = "read" /\ Last.err = 0)
    => /\ Last.ret = 0
       /\ Len(Last.out) = Last.before
       /\ size_of_message = 0

C2_Witness ==
  hist # <<>> /\ Last.op = "read" /\ Last.err = 0 /\ Last.before > 0

\* C3: a read whose copy fails returns -EFAULT and leaves the message
\* buffer, the valid length and the open counter as they were.
C3_FaultLeavesSlot ==
  [][(/\ calls' = calls + 1
      /\ hist'[Len(hist')].op = "read"
      /\ hist'[Len(hist')].err # 0)
     => (/\ hist'[Len(hist')].ret = -EFAULT
         /\ message' = message
         /\ size_of_message' = size_of_message
         /\ open_num' = open_num)]_vars

C3_Witness ==
  /\ hist # <<>> /\ Last.op = "read" /\ Last.err # 0
  /\ Last.ret = -EFAULT
  /\ size_of_message > 0

\* C4: the valid length is always within 0..256 and no write stores a byte
\* outside the 256-byte buffer.
C4_ValidLengthInBuffer ==
  /\ size_of_message \in 0..Capacity
  /\ spill = <<>>

\* C5: a write whose composed content is longer than 256 bytes stores its
\* first 256 bytes and sets the valid length to 256; the read after it
\* delivers at most 256 bytes.
C5_OverflowTruncates ==
  /\ (hist # <<>> /\ Last.op = "write" /\ Len(Composed(Last.in)) > Capacity)
       => /\ message = SubSeq(Composed(Last.in), 1, Capacity)
          /\ size_of_message = Capacity
  /\ \A i \in 1..(Len(hist) - 1) :
       (/\ hist[i].op = "write"
        /\ Len(Composed(hist[i].in)) > Capacity
        /\ hist[i + 1].op = "read")
       => Len(hist[i + 1].out) <= Capacity

\* C6: every write returns the len it was called with, whatever was stored.
C6_WriteReturnsLen ==
  \A i \in DOMAIN hist :
    hist[i].op = "write" => hist[i].ret = WriteInputs[hist[i].in].len

C6_Witness ==
  /\ hist # <<>> /\ Last.op = "write"
  /\ Len(Composed(Last.in)) > Capacity
  /\ Last.ret = WriteInputs[Last.in].len
  /\ size_of_message # Last.ret

----------------------------------------------------------------------------
(* Properties of loading and unloading (checked under Spec) *)

\* The resources of the acquiring calls made, and of the releasing calls
\* made, in the order of the calls.
RECURSIVE ResourcesOf(_)
ResourcesOf(log) ==
  IF log = <<>> THEN <<>> ELSE <<ResourceOf(Head(log))>> \o ResourcesOf(Tail(log))

AcquiredSeq == ResourcesOf(SelectSeq(klog, LAMBDA c : ~IsRelease(c)))
ReleasedSeq == ResourcesOf(SelectSeq(klog, IsRelease))

Reverse(q) == [i \in 1..Len(q) |-> q[Len(q) + 1 - i]]

\* Every acquiring call precedes every releasing call.
AcquiresFirst ==
  \A i, j \in DOMAIN klog : (IsRelease(klog[i]) /\ ~IsRelease(klog[j])) => j < i

\* Position of a resource in the order of acquisition.
AcqRank(r) == CHOOSE i \in DOMAIN AcquiredSeq : AcquiredSeq[i] = r

\* C7: when chardev_init returns an error, every resource acquired before the
\* failing step has been released exactly once, in reverse order of
\* acquisition, and none is held; when class creation failed, the major
\* number was released exactly once and no device node was ever created.
C7_RollbackReleasesAll ==
  pc = "failed"
    => /\ ret < 0
       /\ held = {}
       /\ \A r \in Resources : acq[r] <= 1 /\ rel[r] = acq[r]
       /\ AcquiresFirst
       /\ ReleasedSeq = Reverse(AcquiredSeq)
       /\ IS_ERR(chardev_class)
            => /\ rel["major"] = 1
               /\ acq["node"] = 0

C7_Witness ==
  pc = "failed" /\ IS_ERR(chardev_class) /\ rel["major"] = 1

\* C8: whenever the device node exists, the class and the major number
\* exist, in every intermediate state of loading, rollback and unloading.
C8_NodeNeedsClassAndMajor ==
  "node" \in held => {"class", "major"} \subseteq held

C8_Witness ==
  pc = "exit" /\ "node" \in held

C10_NoHandlerBeforeInitDone ==
  ~early

----------------------------------------------------------------------------
(* Further properties of the message exchange (checked under SpecSlot) *)

\* C12: open leaves the message buffer and the valid length unchanged, and
\* release leaves the message buffer, the valid length and the open counter
\* unchanged, whatever the state and the calls around them.
C12_OpenReleaseFrame ==
  [][/\ (nopen' = nopen + 1)
          => (message' = message /\ size_of_message' = size_of_message /\ spill' = spill)
     /\ (nopen' = nopen - 1)
          => (/\ message' = message /\ size_of_message' = size_of_message
              /\ spill' = spill /\ open_num' = open_num)]_vars

C12_Witness ==
  /\ hist # <<>> /\ Last.op = "release"
  /\ size_of_message > 0
  /\ open_num > 0

\* The 17 characters of "hello (5 letters)".
HelloText ==
  <<104, 101, 108, 108, 111, 32, 40, 53, 32, 108, 101, 116, 116, 101, 114, 115, 41>>

\* A write of "hello" with len 5 into an empty slot, at position i of hist.
HelloWriteAt(i) ==
  hist[i].op = "write" /\ hist[i].in = 1 /\ hist[i].before = 0

\* C15, as claimed: after a write of "hello" with len 5 into an empty slot the
\* slot holds "hello (5 letters)" with valid length 18; the read that follows
\* returns those 18 bytes and the valid length becomes 0.
C15_HelloEighteen ==
  /\ (hist # <<>> /\ HelloWriteAt(Len(hist)))
       => (CStr(message) = HelloText /\ size_of_message = 18)
  /\ (Len(hist) >= 2 /\ HelloWriteAt(Len(hist) - 1)
        /\ Last.op = "read" /\ Last.err = 0)
       => (Len(Last.out) = 18 /\ size_of_message = 0)

\* C15, amended: the slot holds the 17 bytes "hello (5 letters)" with valid
\* length 17; the read that follows delivers those 17 bytes and the valid
\* length becomes 0.
C15_HelloSeventeen ==
  /\ (hist # <<>> /\ HelloWriteAt(Len(hist)))
       => (/\ CStr(message) = HelloText
           /\ size_of_message = Len(HelloText)
           /\ Len(HelloText) = 17)
  /\ (Len(hist) >= 2 /\ HelloWriteAt(Len(hist) - 1)
        /\ Last.op = "read" /\ Last.err = 0)
       => (Last.out = HelloText /\ size_of_message = 0)

C15_Witness ==
  /\ Len(hist) >= 2 /\ HelloWriteAt(Len(hist) - 1)
  /\ Last.op = "read" /\ Last.err = 0
  /\ Last.out = HelloText

\* C17: a write whose composition fits the buffer stores the first len
\* supplied bytes followed by " (<len> letters)" and sets the valid length to
\* the length of that composition, also for supplied bytes that hold a zero
\* byte and for buffers with no zero byte at position len.
C17_StoresSuppliedBytes ==
  (hist # <<>> /\ Last.op = "write" /\ Len(Composed(Last.in)) < Capacity)
    => /\ SubSeq(message, 1, Len(Composed(Last.in))) = Composed(Last.in)
       /\ size_of_message = Len(Composed(Last.in))

\* C19: a read copies at most min(requested length, valid length) bytes to
\* the caller.
C19_ReadWithinRequest ==
  \A i \in DOMAIN hist :
    hist[i].op = "read"
      => /\ Len(hist[i].out) <= hist[i].len
         /\ Len(hist[i].out) <= hist[i].before

----------------------------------------------------------------------------
(* Further properties of loading and unloading *)

\* C16, as claimed (checked under SpecLoad): two loads that fail at different
\* steps return different values.
C16_DistinctFailureValues ==
  pc = "failed"
    => \A i \in DOMAIN attempts :
         attempts[i].step # FailedStep => attempts[i].ret # ret

\* C16, amended: a load that fails returns the negative error value of the
\* kernel call that failed: register_chrdev's result, or the errno carried
\* by the class pointer or by the device pointer.
C16_ReturnsKernelError ==
  pc = "failed"
    => /\ ret < 0
       /\ ret = (CASE FailedStep = "major" -> major_num
                   [] FailedStep = "class" -> chardev_class
                   [] FailedStep = "node" -> chardev_device)

\* Two loads failed at different steps with the same value.
C16_Witness ==
  /\ pc = "failed"
  /\ \E i \in DOMAIN attempts :
       attempts[i].step # FailedStep /\ attempts[i].ret = ret

\* C20 (checked under Spec): no resource is released more often than it was
\* acquired, and once a load has failed or an unload has returned each
\* resource was released exactly as often as it was acquired.
C20_ReleasedAsAcquired ==
  /\ \A r \in Resources : rel[r] <= acq[r]
  /\ pc \in {"failed", "gone"} => \A r \in Resources : rel[r] = acq[r]

\* The opens that have returned.
OpensDone == {c \in Callers : cs[c].op = "open" /\ cs[c].pc = "done"}

\* C11 (checked under SpecOpen): every open returns 0, and when no two opens
\* overlapped the open counter equals the number of opens that have returned.
C11_OpenCountsCalls ==
  /\ \A c \in OpensDone : cs[c].ret = 0
  /\ (\A c \in Callers : cs[c].alone) => open_num = Cardinality(OpensDone)

C11_Witness ==
  /\ OpensDone = Callers
  /\ \A c \in Callers : cs[c].alone
  /\ open_num = NCallers

\* C14 (checked under SpecOpen): the increment of the open counter is a read
\* followed later by a store of the value read plus one, whatever the counter
\* has become in between; the counter never exceeds the number of opens that
\* have returned.  The witness is the lost update: all opens have returned 0
\* and the counter is less than their number.
C14_IncrementStoresStaleSum ==
  /\ [](open_num <= Cardinality(OpensDone))
  /\ [][\A c \in Callers :
          (cs[c].pc = "incr" /\ cs'[c].pc = "done")
            => open_num' = cs[c].reg + 1]_vars

C14_Witness ==
  /\ OpensDone = Callers
  /\ \A c \in Callers : cs[c].ret = 0
  /\ open_num < NCallers

\* The slot is the one write k leaves when it runs alone.
WrittenAlone(k) ==
  LET f == Format(RaceInputs[k].buf, RaceInputs[k].len)
  IN  CStr(message) = f /\ size_of_message = Len(f)

\* C13 (checked under SpecRace): after write("a", 1) and write("bb", 2) made
\* at the same time have both returned, the slot is the one that one of the
\* two writes leaves when it runs alone.
C13_WriteWriteAtomic ==
  ( /\ \A c \in RaceCallers : cs[c].op = "write" /\ cs[c].pc = "done"
    /\ cs[1].k # cs[2].k )
    => \E k \in DOMAIN RaceInputs : WrittenAlone(k)

\* C18 (checked under SpecRace): when a write and a read of different callers
\* overlapped and both returned success, the read delivered the composed
\* message of the write or the slot still holds it with its length.
C18_NoMessageLost ==
  \A w, r \in RaceCallers :
    ( /\ cs[w].op = "write" /\ cs[w].pc = "done"
      /\ cs[r].op = "read" /\ cs[r].pc = "done"
      /\ ~ (cs[w].alone /\ cs[r].alone)
      /\ cs[w].ret = RaceInputs[cs[w].k].len
      /\ cs[r].ret = 0 )
      => \/ cs[r].out = Format(RaceInputs[cs[w].k].buf, RaceInputs[cs[w].k].len)
         \/ WrittenAlone(cs[w].k)


====
